---- MODULE Spec2Model ----
(***************************************************************************)
(* The dominoes match engine of manalejandro/dominoes as a state machine.  *)
(*                                                                         *)
(* Two servers and the offline store host a match:                         *)
(*   "relay"  src/server.mjs, the custom socket.io server, which carries   *)
(*            its own copy of the rules inside its make-move handler;      *)
(*   "route"  src/app/api/socket/route.ts, the socket.io server that calls *)
(*            executeMove of src/lib/gameLogic and then isGameBlocked;     *)
(*   "local"  the store of src/lib/store.ts in AI mode: one human against  *)
(*            the automated opponent, executeMove called directly.         *)
(* The variable host is fixed by Init and says which host a behaviour is   *)
(* about; gameState is that host's match state.  The variable seats, fixed *)
(* by Init as well, is the number of connections of the behaviour.         *)
(*                                                                         *)
(* Rendering data (position, orientation, rotation, names, score field)    *)
(* is left out: no rule reads it.                                          *)
(***************************************************************************)
EXTENDS Integers, Sequences, FiniteSets, TLC

VARIABLES host, seats, store, roomOpen, gameState, deals, stray, last

vars == <<host, seats, store, roomOpen, gameState, deals, stray, last>>

(***************************************************************************)
(* Bounds of the model.  The source plays a double-six set (pips 0..6)     *)
(* with 7 tiles per hand; the model plays a double-MaxPip set with         *)
(* tilesPerPlayer tiles per hand.                                          *)
(***************************************************************************)
MaxPip == 2

tilesPerPlayer == 2

NumSockets == 2

MaxJoins == 2

MaxParty == 3

MaxDeals == 1

MaxDealsAbiding == 2

MaxStride == 1

MaxStray == 2

MaxStrideOffline == 5

MaxTimers == 2

MaxThinking == 1

MaxPlayers == 4

Null == "null"

Pips == 0..MaxPip

SocketNames == <<"s1", "s2", "s3", "s4", "s5">>

\* The connections of the behaviour.
SocketIds == {SocketNames[i] : i \in 1..seats}

Sides == {"left", "right", "top"}

Min(a, b) == IF a < b THEN a ELSE b

(***************************************************************************)
(* Array helpers: findIndex / find return the first match (0 for none).    *)
(***************************************************************************)
FirstIdx(S) == IF S = {} THEN 0 ELSE CHOOSE i \in S : \A j \in S : i <= j

PlayerIdx(players, id) == FirstIdx({i \in 1..Len(players) : players[i].id = id})

\* findIndex whose -1 is used as an index: splice(-1, 1) takes the last tile.
TileIdxOrLast(tiles, id) ==
    IF \E i \in 1..Len(tiles) : tiles[i].id = id
    THEN FirstIdx({i \in 1..Len(tiles) : tiles[i].id = id})
    ELSE Len(tiles)

TileIdx(tiles, id) == FirstIdx({i \in 1..Len(tiles) : tiles[i].id = id})

EndIdx(boardEnds, side) == FirstIdx({i \in 1..Len(boardEnds) : boardEnds[i].side = side})

RemoveAt(s, i) == SubSeq(s, 1, i - 1) \o SubSeq(s, i + 1, Len(s))

Take(s, n) == SubSeq(s, 1, Min(n, Len(s)))

Drop(s, n) == SubSeq(s, Min(n, Len(s)) + 1, Len(s))

(***************************************************************************)
(* Tiles.  The id `${i}-${j}` is modelled by the pair <<i, j>>.            *)
(***************************************************************************)
Tile(i, j) == [id |-> <<i, j>>, left |-> i, right |-> j]

RECURSIVE GenRow(_, _)
GenRow(i, j) == IF j > MaxPip THEN <<>> ELSE <<Tile(i, j)>> \o GenRow(i, j + 1)

RECURSIVE GenFrom(_)
GenFrom(i) == IF i > MaxPip THEN <<>> ELSE GenRow(i, i) \o GenFrom(i + 1)

generateDominoSet == GenFrom(0)

SetSize == Len(generateDominoSet)

TileIds == {generateDominoSet[i].id : i \in 1..SetSize}

RECURSIVE Gcd(_, _)
Gcd(a, b) == IF b = 0 THEN a ELSE Gcd(b, a % b)

\* shuffleArray returns some permutation of its argument; the model draws it
\* from the permutations i |-> k + i*s (mod n) with s coprime to n.
Permute(array, maxStride) ==
    LET n == Len(array)
    IN  {[i \in 1..n |-> array[((k + (i - 1) * s) % n) + 1]] :
            k \in 0..(n - 1), s \in {x \in 1..maxStride : Gcd(x, n) = 1}}

shuffleArray(array) == Permute(array, MaxStride)

\* dealTiles, with the shuffled set passed in.
\* The deal with every hand sliced from the front of the set.
dealTilesOverlap(numPlayers, allTiles) ==
    [playerTiles |-> [i \in 1..numPlayers |-> Take(allTiles, tilesPerPlayer)],
     boneyard |-> Drop(allTiles, numPlayers * tilesPerPlayer)]

dealTiles(numPlayers, allTiles) ==
    [playerTiles |-> [i \in 1..numPlayers |->
                        Take(Drop(allTiles, (i - 1) * tilesPerPlayer), tilesPerPlayer)],
     boneyard |-> Drop(allTiles, numPlayers * tilesPerPlayer)]

\* The scan that keeps the first double it meets.
RECURSIVE ScanTilesFirst(_, _, _)
ScanTilesFirst(tiles, index, acc) ==
    IF tiles = <<>> THEN acc
    ELSE LET t == Head(tiles)
             nacc == IF t.left = t.right /\ acc[1] < 0 THEN <<t.left, index>> ELSE acc
         IN  ScanTilesFirst(Tail(tiles), index, nacc)

RECURSIVE ScanTiles(_, _, _)
ScanTiles(tiles, index, acc) ==
    IF tiles = <<>> THEN acc
    ELSE LET t == Head(tiles)
             nacc == IF t.left = t.right /\ t.left > acc[1] THEN <<t.left, index>> ELSE acc
         IN  ScanTiles(Tail(tiles), index, nacc)

RECURSIVE ScanPlayers(_, _, _)
ScanPlayers(players, index, acc) ==
    IF index >= Len(players) THEN acc
    ELSE ScanPlayers(players, index + 1, ScanTiles(players[index + 1].tiles, index, acc))

findStartingPlayer(players) == ScanPlayers(players, 0, <<-1, 0>>)[2]

(***************************************************************************)
(* Match state.                                                            *)
(***************************************************************************)
createGameState ==
    [players |-> <<>>, currentPlayerIndex |-> 0, board |-> <<>>, boneyard |-> <<>>,
     boardEnds |-> <<>>, winner |-> Null, isGameOver |-> FALSE, turnsPassed |-> 0,
     gameMode |-> "waiting", rematchRequests |-> <<>>]

NewPlayer(id, ai) == [id |-> id, tiles |-> <<>>, isAI |-> ai, isReady |-> FALSE]

RECURSIVE SumPips(_)
SumPips(tiles) ==
    IF tiles = <<>> THEN 0 ELSE Head(tiles).left + Head(tiles).right + SumPips(Tail(tiles))

calculateScore(tiles) == SumPips(tiles)

\* The forEach scan for the lowest hand total: acc = <<found, lowestScore, winnerId>>,
\* found = FALSE standing for lowestScore = Infinity, winnerId = ''.
RECURSIVE LowestScan(_, _)
LowestScan(players, acc) ==
    IF players = <<>> THEN acc
    ELSE LET p == Head(players)
             score == calculateScore(p.tiles)
             nacc == IF ~acc[1] \/ score < acc[2] THEN <<TRUE, score, p.id>> ELSE acc
         IN  LowestScan(Tail(players), nacc)

\* The scan with <= in place of <: the last of the tied participants wins.
RECURSIVE LowestScanLast(_, _)
LowestScanLast(players, acc) ==
    IF players = <<>> THEN acc
    ELSE LET p == Head(players)
             score == calculateScore(p.tiles)
             nacc == IF ~acc[1] \/ score <= acc[2] THEN <<TRUE, score, p.id>> ELSE acc
         IN  LowestScanLast(Tail(players), nacc)

determineBlockedWinnerLast(players) == LowestScanLast(players, <<FALSE, 0, "">>)[3]

\* The pass paths of src/server.mjs (265-274) and of executeMove (851-862)
\* write the same scan out in place.
determineBlockedWinner(players) == LowestScan(players, <<FALSE, 0, "">>)[3]

canPlaceTile(tile, endValue) == tile.left = endValue \/ tile.right = endValue

flipTile(tile) == [tile EXCEPT !.left = tile.right, !.right = tile.left]

needsFlip(tile, side, matchValue) ==
    IF side = "right"
    THEN tile.right = matchValue /\ tile.left # matchValue
    ELSE tile.left = matchValue /\ tile.right # matchValue

\* tileToPlace: the submitted tile, flipped when the flip rule says so.
tileToPlace(g, move) ==
    IF Len(g.board) = 0 THEN move.tile
    ELSE LET e == EndIdx(g.boardEnds, move.side)
             matchValue == IF e = 0 THEN 0 ELSE g.boardEnds[e].value
         IN  IF needsFlip(move.tile, move.side, matchValue) THEN flipTile(move.tile)
             ELSE move.tile

insertTile(board, placed, side) ==
    IF side = "right" THEN Append(board, placed) ELSE <<placed>> \o board

\* A patch of the ends that trusts the placed tile for the right end.
newBoardEndsPatched(newBoard, placed) ==
    <<[value |-> newBoard[1].left, side |-> "left"],
      [value |-> placed.right, side |-> "right"]>>

newBoardEnds(newBoard, placed) ==
    IF Len(newBoard) = 1
    THEN <<[value |-> placed.left, side |-> "left"], [value |-> placed.right, side |-> "right"]>>
    ELSE <<[value |-> newBoard[1].left, side |-> "left"],
           [value |-> newBoard[Len(newBoard)].right, side |-> "right"]>>

(***************************************************************************)
(* Submitted moves and the outcome of a handler.                           *)
(***************************************************************************)
Res(g, outcome) == [state |-> g, outcome |-> outcome]

NoMove == [playerId |-> Null, tile |-> Tile(0, 0), side |-> "left", pass |-> FALSE]

Rejections ==
    {"Not your turn", "Player not found", "Tile not found", "Invalid side",
     "Tile does not match board end", "No tiles left to draw"}

(***************************************************************************)
(* src/server.mjs, the relay.                                              *)
(***************************************************************************)
\* The pass that hands the turn on without counting.
relayPassUncounted(g) ==
    [g EXCEPT !.currentPlayerIndex = (g.currentPlayerIndex + 1) % Len(g.players)]

relayPass(g) ==
    LET tp == g.turnsPassed + 1
        g1 == [g EXCEPT !.currentPlayerIndex = (g.currentPlayerIndex + 1) % Len(g.players),
                        !.turnsPassed = tp]
    IN  IF tp >= Len(g.players)
        THEN [g1 EXCEPT !.isGameOver = TRUE,
                        !.winner = determineBlockedWinner(g.players),
                        !.gameMode = "finished"]
        ELSE g1

relayTargetEnd(boardEnds, side) ==
    FirstIdx({i \in 1..Len(boardEnds) :
                \/ side = "left" /\ boardEnds[i].side = "left"
                \/ side = "right" /\ boardEnds[i].side = "right"})

relayPlace(g, pi, ti, move) ==
    LET placed == tileToPlace(g, move)
        newTiles == RemoveAt(g.players[pi].tiles, ti)
        newBoard == insertTile(g.board, placed, move.side)
        g1 == [g EXCEPT !.players[pi].tiles = newTiles,
                        !.board = newBoard,
                        !.boardEnds = newBoardEnds(newBoard, placed),
                        !.currentPlayerIndex = (g.currentPlayerIndex + 1) % Len(g.players),
                        !.turnsPassed = 0]
    IN  IF Len(newTiles) = 0
        THEN [g1 EXCEPT !.winner = g.players[pi].id, !.isGameOver = TRUE,
                        !.gameMode = "finished"]
        ELSE g1

\* The handler with the tile taken from the hand before the match validation.
relayMakeMoveEager(g, socket, move) ==
    IF g.currentPlayerIndex >= Len(g.players) THEN Res(g, "TypeError")
    ELSE IF g.players[g.currentPlayerIndex + 1].id # socket THEN Res(g, "Not your turn")
    ELSE LET pi == PlayerIdx(g.players, move.playerId)
         IN  IF pi = 0 THEN Res(g, "Player not found")
             ELSE IF move.pass THEN Res(relayPass(g), "ok")
             ELSE LET ti == TileIdx(g.players[pi].tiles, move.tile.id)
                      te == relayTargetEnd(g.boardEnds, move.side)
                      g0 == [g EXCEPT !.players[pi].tiles = RemoveAt(g.players[pi].tiles, ti)]
                  IN  IF ti = 0 THEN Res(g, "Tile not found")
                      ELSE IF Len(g.boardEnds) > 0 /\ te = 0 THEN Res(g0, "Invalid side")
                      ELSE IF Len(g.boardEnds) > 0
                              /\ ~(move.tile.left = g.boardEnds[te].value
                                   \/ move.tile.right = g.boardEnds[te].value)
                      THEN Res(g0, "Tile does not match board end")
                      ELSE Res(relayPlace(g, pi, ti, move), "ok")

relayMakeMove(g, socket, move) ==
    IF g.currentPlayerIndex >= Len(g.players) THEN Res(g, "TypeError")
    ELSE IF g.players[g.currentPlayerIndex + 1].id # socket THEN Res(g, "Not your turn")
    ELSE LET pi == PlayerIdx(g.players, move.playerId)
         IN  IF pi = 0 THEN Res(g, "Player not found")
             ELSE IF move.pass THEN Res(relayPass(g), "ok")
             ELSE LET ti == TileIdx(g.players[pi].tiles, move.tile.id)
                      te == relayTargetEnd(g.boardEnds, move.side)
                  IN  IF ti = 0 THEN Res(g, "Tile not found")
                      ELSE IF Len(g.boardEnds) > 0 /\ te = 0 THEN Res(g, "Invalid side")
                      ELSE IF Len(g.boardEnds) > 0
                              /\ ~(move.tile.left = g.boardEnds[te].value
                                   \/ move.tile.right = g.boardEnds[te].value)
                      THEN Res(g, "Tile does not match board end")
                      ELSE Res(relayPlace(g, pi, ti, move), "ok")

\* The handler with the turn handed on when the boneyard is empty.
relayDrawTileSkip(g, socket) ==
    IF g.currentPlayerIndex >= Len(g.players) THEN Res(g, "TypeError")
    ELSE IF g.players[g.currentPlayerIndex + 1].id # socket THEN Res(g, "Not your turn")
    ELSE IF Len(g.boneyard) = 0
    THEN Res([g EXCEPT !.currentPlayerIndex = (g.currentPlayerIndex + 1) % Len(g.players)],
             "No tiles left to draw")
    ELSE LET drawnTile == g.boneyard[Len(g.boneyard)]
             ci == g.currentPlayerIndex + 1
         IN  Res([g EXCEPT !.boneyard = SubSeq(g.boneyard, 1, Len(g.boneyard) - 1),
                           !.players[ci].tiles = Append(g.players[ci].tiles, drawnTile)],
                 "ok")

relayDrawTile(g, socket) ==
    IF g.currentPlayerIndex >= Len(g.players) THEN Res(g, "TypeError")
    ELSE IF g.players[g.currentPlayerIndex + 1].id # socket THEN Res(g, "Not your turn")
    ELSE IF Len(g.boneyard) = 0 THEN Res(g, "No tiles left to draw")
    ELSE LET drawnTile == g.boneyard[Len(g.boneyard)]
             ci == g.currentPlayerIndex + 1
         IN  Res([g EXCEPT !.boneyard = SubSeq(g.boneyard, 1, Len(g.boneyard) - 1),
                           !.players[ci].tiles = Append(g.players[ci].tiles, drawnTile)],
                 "ok")

relayJoinRoom(g, socket) ==
    IF Len(g.players) >= MaxPlayers THEN Res(g, "Room is full")
    ELSE IF g.gameMode # "waiting" THEN Res(g, "Game already started")
    ELSE Res([g EXCEPT !.players = Append(g.players, NewPlayer(socket, FALSE))], "ok")

\* startGame: deal from the shuffled set allTiles, keep everything else of the room.
startGame(g, allTiles) ==
    LET d == dealTiles(Len(g.players), allTiles)
        updatedPlayers == [i \in 1..Len(g.players) |->
                             [g.players[i] EXCEPT !.tiles = d.playerTiles[i]]]
    IN  [g EXCEPT !.players = updatedPlayers,
                  !.currentPlayerIndex = findStartingPlayer(updatedPlayers),
                  !.boneyard = d.boneyard,
                  !.gameMode = "playing",
                  !.rematchRequests = <<>>]

playerReady(g, socket, allTiles) ==
    LET pi == PlayerIdx(g.players, socket)
        g1 == [g EXCEPT !.players[pi].isReady = TRUE]
        allReady == Len(g1.players) >= 2
                    /\ \A i \in 1..Len(g1.players) : g1.players[i].isReady
    IN  IF pi = 0 THEN Res(g, "ignored")
        ELSE IF allReady THEN Res(startGame(g1, allTiles), "game-started")
        ELSE Res(g1, "ok")

\* The departure that concludes the match in any phase.
removePlayerAnyPhase(g, socket) ==
    LET humanPlayers == SelectSeq(g.players, LAMBDA p : ~p.isAI)
        remaining == SelectSeq(g.players, LAMBDA p : p.id # socket)
        remainingHumanPlayers == SelectSeq(remaining, LAMBDA p : ~p.isAI)
        g1 == [g EXCEPT !.players = remaining]
        g2 == IF Len(remainingHumanPlayers) = 1 /\ Len(humanPlayers) > 1
              THEN [g1 EXCEPT !.isGameOver = TRUE,
                              !.winner = remainingHumanPlayers[1].id,
                              !.gameMode = "finished"]
              ELSE g1
    IN  IF g2.currentPlayerIndex >= Len(g2.players)
        THEN [g2 EXCEPT !.currentPlayerIndex = 0]
        ELSE g2

\* The departure without the adjustment of currentPlayerIndex.
removePlayerKeepIndex(g, socket) ==
    LET humanPlayers == SelectSeq(g.players, LAMBDA p : ~p.isAI)
        remaining == SelectSeq(g.players, LAMBDA p : p.id # socket)
        remainingHumanPlayers == SelectSeq(remaining, LAMBDA p : ~p.isAI)
        g1 == [g EXCEPT !.players = remaining]
    IN  IF g.gameMode = "playing" /\ Len(remainingHumanPlayers) = 1
           /\ Len(humanPlayers) > 1
        THEN [g1 EXCEPT !.isGameOver = TRUE,
                        !.winner = remainingHumanPlayers[1].id,
                        !.gameMode = "finished"]
        ELSE g1

\* The departure that names the first human of the old list the winner.
removePlayerOldList(g, socket) ==
    LET humanPlayers == SelectSeq(g.players, LAMBDA p : ~p.isAI)
        remaining == SelectSeq(g.players, LAMBDA p : p.id # socket)
        remainingHumanPlayers == SelectSeq(remaining, LAMBDA p : ~p.isAI)
        g1 == [g EXCEPT !.players = remaining]
        g2 == IF g.gameMode = "playing" /\ Len(remainingHumanPlayers) = 1
                 /\ Len(humanPlayers) > 1
              THEN [g1 EXCEPT !.isGameOver = TRUE,
                              !.winner = humanPlayers[1].id,
                              !.gameMode = "finished"]
              ELSE g1
    IN  IF g2.currentPlayerIndex >= Len(g2.players)
        THEN [g2 EXCEPT !.currentPlayerIndex = 0]
        ELSE g2

\* The part leave-room and disconnect share once the player is found.
removePlayer(g, socket) ==
    LET humanPlayers == SelectSeq(g.players, LAMBDA p : ~p.isAI)
        remaining == SelectSeq(g.players, LAMBDA p : p.id # socket)
        remainingHumanPlayers == SelectSeq(remaining, LAMBDA p : ~p.isAI)
        g1 == [g EXCEPT !.players = remaining]
        g2 == IF g.gameMode = "playing" /\ Len(remainingHumanPlayers) = 1
                 /\ Len(humanPlayers) > 1
              THEN [g1 EXCEPT !.isGameOver = TRUE,
                              !.winner = remainingHumanPlayers[1].id,
                              !.gameMode = "finished"]
              ELSE g1
    IN  IF g2.currentPlayerIndex >= Len(g2.players)
        THEN [g2 EXCEPT !.currentPlayerIndex = 0]
        ELSE g2

\* The rematch that deals over the old board.
startRematchKeepBoard(g, allTiles) ==
    LET d == dealTiles(Len(g.players), allTiles)
        updatedPlayers == [i \in 1..Len(g.players) |->
                             [g.players[i] EXCEPT !.tiles = d.playerTiles[i],
                                                  !.isReady = TRUE]]
    IN  [players |-> updatedPlayers,
         currentPlayerIndex |-> findStartingPlayer(updatedPlayers),
         board |-> g.board, boneyard |-> d.boneyard, boardEnds |-> g.boardEnds,
         winner |-> Null, isGameOver |-> FALSE, turnsPassed |-> 0,
         gameMode |-> "playing", rematchRequests |-> <<>>]

startRematch(g, allTiles) ==
    LET d == dealTiles(Len(g.players), allTiles)
        updatedPlayers == [i \in 1..Len(g.players) |->
                             [g.players[i] EXCEPT !.tiles = d.playerTiles[i],
                                                  !.isReady = TRUE]]
    IN  [players |-> updatedPlayers,
         currentPlayerIndex |-> findStartingPlayer(updatedPlayers),
         board |-> <<>>, boneyard |-> d.boneyard, boardEnds |-> <<>>,
         winner |-> Null, isGameOver |-> FALSE, turnsPassed |-> 0,
         gameMode |-> "playing", rematchRequests |-> <<>>]

Includes(seq, x) == \E i \in 1..Len(seq) : seq[i] = x

requestRematch(g, socket, allTiles) ==
    LET g1 == IF Includes(g.rematchRequests, socket) THEN g
              ELSE [g EXCEPT !.rematchRequests = Append(g.rematchRequests, socket)]
        allPlayersRequested ==
            \A i \in 1..Len(g1.players) : Includes(g1.rematchRequests, g1.players[i].id)
    IN  IF allPlayersRequested THEN Res(startRematch(g1, allTiles), "rematch-started")
        ELSE Res(g1, "ok")

(***************************************************************************)
(* The engine of src/lib/gameLogic (shipped inside src/lib/store.ts).      *)
(***************************************************************************)
canPlayerMove(player, boardEnds) ==
    IF Len(boardEnds) = 0 THEN TRUE
    ELSE \E i \in 1..Len(player.tiles) : \E e \in 1..Len(boardEnds) :
            canPlaceTile(player.tiles[i], boardEnds[e].value)

isValidMove(tile, side, boardEnds) ==
    IF Len(boardEnds) = 0 THEN TRUE
    ELSE LET te == relayTargetEnd(boardEnds, side)
         IN  IF te = 0 THEN FALSE ELSE canPlaceTile(tile, boardEnds[te].value)

\* The test with the current participant alone asked.
isGameBlockedCurrent(g) ==
    IF Len(g.boneyard) > 0 THEN FALSE
    ELSE \A i \in 1..Len(g.players) :
            i = g.currentPlayerIndex + 1 => ~canPlayerMove(g.players[i], g.boardEnds)

isGameBlocked(g) ==
    IF Len(g.boneyard) > 0 THEN FALSE
    ELSE \A i \in 1..Len(g.players) : ~canPlayerMove(g.players[i], g.boardEnds)

enginePass(g) ==
    LET newTurnsPassed == g.turnsPassed + 1
        g1 == [g EXCEPT !.currentPlayerIndex = (g.currentPlayerIndex + 1) % Len(g.players),
                        !.turnsPassed = newTurnsPassed]
    IN  IF newTurnsPassed >= Len(g.players)
        THEN [g1 EXCEPT !.isGameOver = TRUE,
                        !.winner = determineBlockedWinner(g.players),
                        !.gameMode = "finished"]
        ELSE g1

enginePlace(g, pi, ti, move) ==
    LET player == g.players[pi]
        newTiles == RemoveAt(player.tiles, ti)
        placed == tileToPlace(g, move)
        newBoard == insertTile(g.board, placed, move.side)
        updatedPlayers == [i \in 1..Len(g.players) |->
                             IF g.players[i].id = player.id
                             THEN [g.players[i] EXCEPT !.tiles = newTiles]
                             ELSE g.players[i]]
        isGameOver == Len(newTiles) = 0
    IN  [g EXCEPT !.players = updatedPlayers,
                  !.board = newBoard,
                  !.boardEnds = newBoardEnds(newBoard, placed),
                  !.currentPlayerIndex = (g.currentPlayerIndex + 1) % Len(g.players),
                  !.isGameOver = isGameOver,
                  !.winner = IF isGameOver THEN player.id ELSE Null,
                  !.turnsPassed = 0,
                  !.gameMode = IF isGameOver THEN "finished" ELSE "playing"]

\* executeMove returns its argument for a move it does not apply; the outcome
\* names the return taken.
executeMove(g, move) ==
    LET pi == PlayerIdx(g.players, move.playerId)
    IN  IF pi = 0 THEN Res(g, "Player not found")
        ELSE IF move.pass THEN Res(enginePass(g), "ok")
        ELSE LET ti == TileIdx(g.players[pi].tiles, move.tile.id)
             IN  IF ti = 0 THEN Res(g, "Tile not found")
                 ELSE Res(enginePlace(g, pi, ti, move), "ok")

\* getValidMoves: the (tile, side) pairs in the order the two forEach loops
\* push them; k runs over the (tile, end) pairs, tile-major.
RECURSIVE ValidScan(_, _, _, _)
ValidScan(tiles, boardEnds, k, acc) ==
    IF k > Len(tiles) * Len(boardEnds) THEN acc
    ELSE LET tile == tiles[((k - 1) \div Len(boardEnds)) + 1]
             end == boardEnds[((k - 1) % Len(boardEnds)) + 1]
             entry == [tile |-> tile, side |-> IF end.side = "left" THEN "left" ELSE "right"]
             added == \E j \in 1..Len(acc) :
                          acc[j].tile.id = tile.id /\ acc[j].side = end.side
         IN  IF canPlaceTile(tile, end.value) /\ ~added
             THEN ValidScan(tiles, boardEnds, k + 1, Append(acc, entry))
             ELSE ValidScan(tiles, boardEnds, k + 1, acc)

\* The valid moves with the left end alone looked at.
getValidMovesLeft(player, boardEnds) ==
    IF Len(boardEnds) = 0
    THEN [i \in 1..Len(player.tiles) |-> [tile |-> player.tiles[i], side |-> "left"]]
    ELSE ValidScan(player.tiles, SelectSeq(boardEnds, LAMBDA end : end.side = "left"), 1, <<>>)

getValidMoves(player, boardEnds) ==
    IF Len(boardEnds) = 0
    THEN [i \in 1..Len(player.tiles) |-> [tile |-> player.tiles[i], side |-> "left"]]
    ELSE ValidScan(player.tiles, boardEnds, 1, <<>>)

(***************************************************************************)
(* src/app/api/socket/route.ts.                                            *)
(***************************************************************************)
routeMakeMove(g, socket, move) ==
    IF g.currentPlayerIndex >= Len(g.players) THEN Res(g, "TypeError")
    ELSE IF g.players[g.currentPlayerIndex + 1].id # socket THEN Res(g, "Not your turn")
    ELSE LET r == executeMove(g, move)
             newGameState == r.state
         IN  IF isGameBlocked(newGameState)
             THEN Res([newGameState EXCEPT
                          !.winner = determineBlockedWinner(newGameState.players),
                          !.isGameOver = TRUE,
                          !.gameMode = "finished"], r.outcome)
             ELSE r

routeDrawTile(g, socket) ==
    LET r == relayDrawTile(g, socket)
        ci == g.currentPlayerIndex + 1
    IN  IF r.outcome = "ok" /\ ~canPlayerMove(r.state.players[ci], r.state.boardEnds)
        THEN Res([r.state EXCEPT
                     !.currentPlayerIndex = (g.currentPlayerIndex + 1) % Len(g.players)], "ok")
        ELSE r

routeDisconnect(g, socket) ==
    [g EXCEPT !.players = SelectSeq(g.players, LAMBDA p : p.id # socket)]

(***************************************************************************)
(* The offline store (useGameStore of src/lib/store.ts, roomId 'AI-...')   *)
(* and the automated opponent (src/lib/aiLogic).                           *)
(***************************************************************************)
startAIGame(allTiles) ==
    LET d == dealTiles(2, allTiles)
        players == <<[id |-> "human", tiles |-> d.playerTiles[1], isAI |-> FALSE, isReady |-> TRUE],
                     [id |-> "ai", tiles |-> d.playerTiles[2], isAI |-> TRUE, isReady |-> TRUE]>>
    IN  [players |-> players,
         currentPlayerIndex |-> findStartingPlayer(players),
         board |-> <<>>, boneyard |-> d.boneyard, boardEnds |-> <<>>,
         winner |-> Null, isGameOver |-> FALSE, turnsPassed |-> 0,
         gameMode |-> "playing", rematchRequests |-> <<>>]

\* store.makeMove in AI mode.
storeMakeMove(g, move) == executeMove(g, move)

\* store.drawTile in AI mode: the first tile of the boneyard goes to the
\* player(s) with the id currentPlayerId.
\* drawTile with the boneyard left as it was.
storeDrawTileKeep(g, currentPlayerId) ==
    IF PlayerIdx(g.players, currentPlayerId) = 0 THEN Res(g, "ignored")
    ELSE IF Len(g.boneyard) = 0 THEN Res(g, "ignored")
    ELSE LET drawnTile == g.boneyard[1]
             updatedPlayers == [i \in 1..Len(g.players) |->
                                  IF g.players[i].id = currentPlayerId
                                  THEN [g.players[i] EXCEPT !.tiles = Append(@, drawnTile)]
                                  ELSE g.players[i]]
         IN  Res([g EXCEPT !.players = updatedPlayers], "ok")

storeDrawTile(g, currentPlayerId) ==
    IF PlayerIdx(g.players, currentPlayerId) = 0 THEN Res(g, "ignored")
    ELSE IF Len(g.boneyard) = 0 THEN Res(g, "ignored")
    ELSE LET drawnTile == g.boneyard[1]
             updatedPlayers == [i \in 1..Len(g.players) |->
                                  IF g.players[i].id = currentPlayerId
                                  THEN [g.players[i] EXCEPT !.tiles = Append(@, drawnTile)]
                                  ELSE g.players[i]]
         IN  Res([g EXCEPT !.boneyard = Tail(g.boneyard), !.players = updatedPlayers], "ok")

isDouble(tile) == tile.id[1] = tile.id[2]

evaluateTileValue(tile, boardEnds) ==
    LET matchesLeft == \E e \in 1..Len(boardEnds) :
                          boardEnds[e].side = "left" /\ canPlaceTile(tile, boardEnds[e].value)
        matchesRight == \E e \in 1..Len(boardEnds) :
                          boardEnds[e].side = "right" /\ canPlaceTile(tile, boardEnds[e].value)
    IN  tile.left + tile.right
        + (IF isDouble(tile) THEN 2 ELSE 0)
        + (IF matchesLeft /\ matchesRight THEN 10 ELSE 0)

\* The forEach of the 'medium' level: the first move of the highest value.
RECURSIVE BestScan(_, _, _)
BestScan(validMoves, boardEnds, best) ==
    IF validMoves = <<>> THEN best
    ELSE LET move == Head(validMoves)
         IN  BestScan(Tail(validMoves), boardEnds,
                      IF evaluateTileValue(move.tile, boardEnds)
                            > evaluateTileValue(best.tile, boardEnds)
                      THEN move ELSE best)

\* chooseAIMove(gameState, aiPlayer, 'medium'); none |-> TRUE stands for null.
chooseAIMove(g, aiPlayer) ==
    LET validMoves == getValidMoves(aiPlayer, g.boardEnds)
    IN  IF Len(validMoves) = 0
        THEN IF Len(g.boneyard) > 0
             THEN [none |-> TRUE, move |-> NoMove]
             ELSE [none |-> FALSE,
                   move |-> [playerId |-> aiPlayer.id, tile |-> Tile(0, 0),
                             side |-> "left", pass |-> TRUE]]
        ELSE LET bestMove == BestScan(validMoves, g.boardEnds, validMoves[1])
             IN  [none |-> FALSE,
                  move |-> [playerId |-> aiPlayer.id, tile |-> bestMove.tile,
                            side |-> bestMove.side, pass |-> FALSE]]

shouldAIDraw(g, aiPlayer) ==
    Len(getValidMoves(aiPlayer, g.boardEnds)) = 0 /\ Len(g.boneyard) > 0

AiIdx(g) == FirstIdx({i \in 1..Len(g.players) : g.players[i].isAI})

\* The draw of executeAITurn: the last tile of the boneyard goes to the AI.
aiDraw(g) ==
    [g EXCEPT !.boneyard = SubSeq(g.boneyard, 1, Len(g.boneyard) - 1),
              !.players[AiIdx(g)].tiles = Append(@, g.boneyard[Len(g.boneyard)])]

\* What executeAITurn does with the move chosen on state g.
aiMove(g, drew) ==
    LET c == chooseAIMove(g, g.players[AiIdx(g)])
    IN  IF c.none THEN [state |-> g, outcome |-> "none", move |-> NoMove]
        ELSE [state |-> executeMove(g, c.move).state,
              outcome |-> IF drew THEN "drew-moved" ELSE "moved",
              move |-> c.move]

\* executeAITurn once its guards have let it through (the match is not over,
\* an AI player exists and is the current player).
executeAITurn(g) ==
    IF shouldAIDraw(g, g.players[AiIdx(g)])
    THEN IF Len(g.boneyard) > 0
         THEN LET g1 == aiDraw(g)
              IN  IF ~canPlayerMove(g1.players[AiIdx(g)], g1.boardEnds)
                  THEN [state |-> [g1 EXCEPT !.currentPlayerIndex =
                                               (g.currentPlayerIndex + 1) % Len(g.players)],
                        outcome |-> "drew", move |-> NoMove]
                  ELSE aiMove(g1, TRUE)
         ELSE [state |-> [g EXCEPT !.currentPlayerIndex =
                                      (g.currentPlayerIndex + 1) % Len(g.players),
                                   !.turnsPassed = g.turnsPassed + 1],
               outcome |-> "passed", move |-> NoMove]
    ELSE aiMove(g, FALSE)

(***************************************************************************)
(* What clients submit.  The shipped client (src/app/page.tsx) offers a    *)
(* control only in some states; a submission it would not send there is a  *)
(* stray one: an untimely pass (the client's own pass message, raced or    *)
(* replayed) or a hand-made message.  The servers answer every message, so *)
(* the model submits every message; a behaviour holds at most MaxStray     *)
(* untimely passes, or one other stray message and nothing else stray.     *)
(***************************************************************************)
IsCurrent(g, socket) ==
    g.currentPlayerIndex < Len(g.players) /\ g.players[g.currentPlayerIndex + 1].id = socket

HasPlayer(g, socket) == PlayerIdx(g.players, socket) # 0

Me(g, socket) == g.players[PlayerIdx(g.players, socket)]

\* The controls block of page.tsx: rendered on the game screen when isMyTurn,
\* and covered by the GameOver overlay once isGameOver.
clientControls(g, socket) ==
    /\ g.gameMode # "waiting"
    /\ ~g.isGameOver
    /\ HasPlayer(g, socket)
    /\ IsCurrent(g, socket)

clientCanDraw(g, socket) ==
    Len(g.boneyard) > 0 /\ Len(getValidMoves(Me(g, socket), g.boardEnds)) = 0

\* handlePlaceTile / handlePass of page.tsx.
clientMove(g, socket, move) ==
    /\ clientControls(g, socket)
    /\ move.playerId = socket
    /\ LET validMoves == getValidMoves(Me(g, socket), g.boardEnds)
       IN  IF move.pass
           THEN Len(validMoves) = 0 /\ ~clientCanDraw(g, socket)
           ELSE /\ \E i \in 1..Len(Me(g, socket).tiles) : Me(g, socket).tiles[i] = move.tile
                /\ move.side \in {"left", "right"}
                /\ \/ Len(g.boardEnds) = 0
                   \/ \E k \in 1..Len(validMoves) :
                         validMoves[k].tile.id = move.tile.id /\ validMoves[k].side = move.side

clientDraw(g, socket) == clientControls(g, socket) /\ clientCanDraw(g, socket)

PassMove(p) == [playerId |-> p, tile |-> Tile(0, 0), side |-> "left", pass |-> TRUE]

PlaceMove(p, tile, side) == [playerId |-> p, tile |-> tile, side |-> side, pass |-> FALSE]

\* A tile is genuine when it carries the pip values its id names.
Genuine(tile) == {tile.left, tile.right} = {tile.id[1], tile.id[2]}

HandOf(g, p) == IF HasPlayer(g, p) THEN Me(g, p).tiles ELSE <<>>

\* The moves the client sends in state g.
ClientMoves(g, socket) ==
    {m \in {PassMove(socket)}
           \cup {PlaceMove(socket, HandOf(g, socket)[i], sd) :
                    i \in 1..Len(HandOf(g, socket)), sd \in {"left", "right"}} :
        clientMove(g, socket, m)}

\* The other moves: a pass or a placement in the name of any participant, of
\* any tile of the set, on any side; and a tile of the named hand sent with
\* forged pip values (the doubles).
OtherMoves(g) ==
    {PassMove(p) : p \in SocketIds}
    \cup {PlaceMove(p, generateDominoSet[i], sd) :
            p \in SocketIds, i \in 1..SetSize, sd \in Sides}
    \cup UNION {{PlaceMove(p, [id |-> HandOf(g, p)[i].id, left |-> v, right |-> v], sd) :
                    i \in 1..Len(HandOf(g, p)), v \in Pips, sd \in {"left", "right"}} :
                p \in SocketIds}

\* What is submitted: a handler that answers before it reads the move is
\* given one move.
MoveInputs(g, socket) ==
    IF ~IsCurrent(g, socket) THEN {PassMove(socket)}
    ELSE ClientMoves(g, socket) \cup OtherMoves(g)

\* What a stray message takes from the allowance.
StrayCost(socket, move) == IF move = PassMove(socket) THEN 1 ELSE MaxStray

Shuffles == shuffleArray(generateDominoSet)

\* The shuffles of the offline deal (shuffleArray of src/lib/gameLogic).
ShufflesOffline == Permute(generateDominoSet, MaxStrideOffline)

\* The record of the last message handled; the move is kept when it was applied.
Record(op, socket, move, outcome) ==
    [op |-> op, socket |-> socket, outcome |-> outcome,
     move |-> IF outcome \in {"ok", "moved", "drew-moved"} THEN move ELSE NoMove]

\* A behaviour has NumSockets connections and an allowance of messages the
\* client does not send, or MaxParty connections that keep to the client.
Abiding == seats = MaxParty

JoinCap == IF Abiding THEN MaxParty ELSE MaxJoins

DealCap == IF Abiding \/ host = "local" THEN MaxDealsAbiding ELSE MaxDeals

\* The client's fields before any offline game.
NoStore == [roomId |-> Null, timers |-> 0, thinking |-> <<>>]

Budget(expected, cost) ==
    /\ expected \/ (~Abiding /\ stray + cost <= MaxStray)
    /\ stray' = IF expected THEN stray ELSE stray + cost

(***************************************************************************)
(* Initial state: the room just created (create-room), nobody in it; for   *)
(* the offline store, no game yet (gameState null, shown as roomOpen       *)
(* FALSE).                                                                 *)
(***************************************************************************)
Hosts == {"relay", "route", "local"}

Init ==
    /\ host \in Hosts
    /\ seats = NumSockets
    /\ store = NoStore
    /\ roomOpen = (host # "local")
    /\ gameState = createGameState
    /\ deals = 0
    /\ stray = 0
    /\ last = Record("create-room", Null, NoMove, "ok")

\* Every handler returns at once when the room is gone.
NoRoom(op, socket) ==
    /\ ~roomOpen
    /\ Budget(FALSE, MaxStray)
    /\ last' = Record(op, socket, NoMove, "Game not found")
    /\ UNCHANGED <<host, seats, store, roomOpen, gameState, deals>>

Apply(op, socket, move, r) ==
    /\ gameState' = r.state
    /\ last' = Record(op, socket, move, r.outcome)
    /\ UNCHANGED <<host, seats, store, roomOpen>>

(***************************************************************************)
(* Handlers both servers have in the same words.                           *)
(***************************************************************************)
\* A new connection is given the first socket id not in the room.
FreshSocket(g, socket) ==
    \A i \in 1..seats :
        SocketNames[i] = socket => \A j \in 1..(i - 1) : HasPlayer(g, SocketNames[j])

JoinRoom ==
    \E socket \in SocketIds :
        \/ NoRoom("join-room", socket)
        \/ /\ roomOpen
           /\ HasPlayer(gameState, socket) \/ FreshSocket(gameState, socket)
           /\ \/ gameState.gameMode # "waiting"
              \/ /\ Len(gameState.players) < JoinCap
                 /\ (Len(gameState.players) + 1) * tilesPerPlayer <= SetSize
           /\ Budget(gameState.gameMode = "waiting" /\ ~HasPlayer(gameState, socket), MaxStray)
           /\ Apply("join-room", socket, NoMove, relayJoinRoom(gameState, socket))
           /\ UNCHANGED deals

PlayerReady ==
    \E socket \in SocketIds, allTiles \in Shuffles :
        \/ NoRoom("player-ready", socket)
        \/ /\ roomOpen
           /\ LET r == playerReady(gameState, socket, allTiles)
              IN  /\ r.outcome = "game-started" => deals < DealCap
                  /\ Budget(/\ gameState.gameMode = "waiting"
                            /\ HasPlayer(gameState, socket)
                            /\ ~Me(gameState, socket).isReady,
                            MaxStray)
                  /\ Apply("player-ready", socket, NoMove, r)
                  /\ deals' = IF r.outcome = "game-started" THEN deals + 1 ELSE deals

(***************************************************************************)
(* Handlers of src/server.mjs.                                             *)
(***************************************************************************)
MakeMove ==
    /\ host = "relay"
    /\ \E socket \in SocketIds :
        \/ NoRoom("make-move", socket)
        \/ /\ roomOpen
           /\ \E move \in MoveInputs(gameState, socket) :
                /\ Budget(clientMove(gameState, socket, move), StrayCost(socket, move))
                /\ Apply("make-move", socket, move, relayMakeMove(gameState, socket, move))
           /\ UNCHANGED deals

DrawTile ==
    /\ host = "relay"
    /\ \E socket \in SocketIds :
        \/ NoRoom("draw-tile", socket)
        \/ /\ roomOpen
           /\ Budget(clientDraw(gameState, socket), MaxStray)
           /\ Apply("draw-tile", socket, NoMove, relayDrawTile(gameState, socket))
           /\ UNCHANGED deals

\* leave-room and disconnect: the room is deleted when its last player goes.
Depart(op, socket) ==
    \/ NoRoom(op, socket)
    \/ /\ roomOpen
       /\ ~HasPlayer(gameState, socket)
       /\ Budget(FALSE, MaxStray)
       /\ last' = Record(op, socket, NoMove, "ignored")
       /\ UNCHANGED <<host, seats, store, roomOpen, gameState, deals>>
    \/ /\ roomOpen
       /\ HasPlayer(gameState, socket)
       /\ LET g == removePlayer(gameState, socket)
          IN  IF Len(g.players) = 0
              THEN /\ roomOpen' = FALSE
                   /\ gameState' = createGameState
                   /\ last' = Record(op, socket, NoMove, "room-deleted")
                   /\ UNCHANGED <<host, seats, store, deals, stray>>
              ELSE /\ Apply(op, socket, NoMove, Res(g, "ok"))
                   /\ UNCHANGED <<deals, stray>>

LeaveRoom == host = "relay" /\ \E socket \in SocketIds : Depart("leave-room", socket)

Disconnect == host = "relay" /\ \E socket \in SocketIds : Depart("disconnect", socket)

RequestRematch ==
    /\ host = "relay"
    /\ \E socket \in SocketIds, allTiles \in Shuffles :
        \/ NoRoom("request-rematch", socket)
        \/ /\ roomOpen
           /\ ~gameState.isGameOver
           /\ Budget(FALSE, MaxStray)
           /\ last' = Record("request-rematch", socket, NoMove, "ignored")
           /\ UNCHANGED <<host, seats, store, roomOpen, gameState, deals>>
        \/ /\ roomOpen
           /\ gameState.isGameOver
           /\ LET r == requestRematch(gameState, socket, allTiles)
              IN  /\ r.outcome = "rematch-started" => deals < DealCap
                  /\ Budget(/\ HasPlayer(gameState, socket)
                            /\ ~Includes(gameState.rematchRequests, socket),
                            MaxStray)
                  /\ Apply("request-rematch", socket, NoMove, r)
                  /\ deals' = IF r.outcome = "rematch-started" THEN deals + 1 ELSE deals

(***************************************************************************)
(* Handlers of src/app/api/socket/route.ts.                                *)
(***************************************************************************)
RouteMakeMove ==
    /\ host = "route"
    /\ \E socket \in SocketIds :
        \/ NoRoom("make-move", socket)
        \/ /\ roomOpen
           /\ \E move \in MoveInputs(gameState, socket) :
                /\ Budget(clientMove(gameState, socket, move), StrayCost(socket, move))
                /\ Apply("make-move", socket, move, routeMakeMove(gameState, socket, move))
           /\ UNCHANGED deals

RouteDrawTile ==
    /\ host = "route"
    /\ \E socket \in SocketIds :
        \/ NoRoom("draw-tile", socket)
        \/ /\ roomOpen
           /\ Budget(clientDraw(gameState, socket), MaxStray)
           /\ Apply("draw-tile", socket, NoMove, routeDrawTile(gameState, socket))
           /\ UNCHANGED deals

RouteDisconnect ==
    /\ host = "route"
    /\ \E socket \in SocketIds :
        /\ roomOpen
        /\ HasPlayer(gameState, socket)
        /\ LET g == routeDisconnect(gameState, socket)
           IN  IF Len(g.players) = 0
               THEN /\ roomOpen' = FALSE
                    /\ gameState' = createGameState
                    /\ last' = Record("disconnect", socket, NoMove, "room-deleted")
                    /\ UNCHANGED <<host, seats, store, deals, stray>>
               ELSE /\ Apply("disconnect", socket, NoMove, Res(g, "ok"))
                    /\ UNCHANGED <<deals, stray>>

(***************************************************************************)
(* The offline store.  Its functions are reached through the controls of   *)
(* page.tsx only.  store holds what the client keeps next to gameState:    *)
(* roomId (set with currentPlayerId by startAIGame, cleared with it by     *)
(* leaveRoom), the setTimeout callbacks that will call executeAITurn, and  *)
(* the states read by the calls of executeAITurn that are in their         *)
(* thinking delay.  roomOpen says that gameState is not null.              *)
(***************************************************************************)
\* Whether makeMove sets a timer for the AI on the state it has stored.
aiToMove(g) ==
    /\ g.currentPlayerIndex < Len(g.players)
    /\ g.players[g.currentPlayerIndex + 1].isAI
    /\ ~g.isGameOver

\* A setTimeout whose callback is never run.
setTimeoutDropped(s, wanted) == s

setTimeout(s, wanted) == IF wanted THEN [s EXCEPT !.timers = @ + 1] ELSE s

StartAIGame ==
    /\ host = "local"
    /\ ~roomOpen
    /\ deals < DealCap
    /\ \E allTiles \in ShufflesOffline :
          LET g == startAIGame(allTiles)
          IN  /\ g.currentPlayerIndex = 1 => store.timers < MaxTimers
              /\ gameState' = g
              /\ store' = setTimeout([store EXCEPT !.roomId = "AI"], g.currentPlayerIndex = 1)
    /\ roomOpen' = TRUE
    /\ deals' = deals + 1
    /\ last' = Record("start-ai-game", "human", NoMove, "game-started")
    /\ UNCHANGED <<host, seats, stray>>

StoreMakeMove ==
    /\ host = "local"
    /\ roomOpen
    /\ store.roomId = "AI"
    /\ \E move \in ClientMoves(gameState, "human") :
          LET r == storeMakeMove(gameState, move)
          IN  /\ aiToMove(r.state) => store.timers < MaxTimers
              /\ gameState' = r.state
              /\ store' = setTimeout(store, aiToMove(r.state))
              /\ last' = Record("make-move", "human", move, r.outcome)
    /\ UNCHANGED <<host, seats, roomOpen, deals, stray>>

StoreDrawTile ==
    /\ host = "local"
    /\ roomOpen
    /\ store.roomId = "AI"
    /\ clientDraw(gameState, "human")
    /\ Apply("draw-tile", "human", NoMove, storeDrawTile(gameState, "human"))
    /\ UNCHANGED <<deals, stray>>

\* The guards of executeAITurn on the state it reads.
aiTurnGuards ==
    /\ roomOpen
    /\ ~gameState.isGameOver
    /\ AiIdx(gameState) # 0
    /\ IsCurrent(gameState, gameState.players[AiIdx(gameState)].id)

\* A timer fires: executeAITurn reads gameState, returns if a guard fails
\* and otherwise enters its thinking delay with the state it read.
AITimer ==
    /\ host = "local"
    /\ store.timers > 0
    /\ IF aiTurnGuards
       THEN /\ Len(store.thinking) < MaxThinking
            /\ store' = [store EXCEPT !.timers = @ - 1,
                                      !.thinking = Append(@, gameState)]
            /\ last' = Record("ai-timer", "ai", NoMove, "thinking")
       ELSE /\ store' = [store EXCEPT !.timers = @ - 1]
            /\ last' = Record("ai-timer", "ai", NoMove, "ignored")
    /\ UNCHANGED <<host, seats, roomOpen, gameState, deals, stray>>

\* The thinking delay of a call is over: the rest of executeAITurn runs on
\* the state the call read, and set() stores what it computes.
ExecuteAITurn ==
    /\ host = "local"
    /\ \E i \in 1..Len(store.thinking) :
          LET r == executeAITurn(store.thinking[i])
          IN  /\ store' = [store EXCEPT !.thinking = RemoveAt(@, i)]
              /\ last' = Record("ai-turn", "ai", r.move, r.outcome)
              /\ IF r.outcome = "none"
                 THEN UNCHANGED <<roomOpen, gameState>>
                 ELSE roomOpen' = TRUE /\ gameState' = r.state
    /\ UNCHANGED <<host, seats, deals, stray>>

StoreLeaveRoom ==
    /\ host = "local"
    /\ roomOpen
    /\ roomOpen' = FALSE
    /\ gameState' = createGameState
    /\ store' = [store EXCEPT !.roomId = Null]
    /\ last' = Record("leave-room", "human", NoMove, "room-deleted")
    /\ UNCHANGED <<host, seats, deals, stray>>

NextRelay ==
    \/ host = "relay" /\ JoinRoom
    \/ host = "relay" /\ PlayerReady
    \/ MakeMove
    \/ DrawTile
    \/ LeaveRoom
    \/ Disconnect
    \/ RequestRematch

NextRoute ==
    \/ host = "route" /\ JoinRoom
    \/ host = "route" /\ PlayerReady
    \/ RouteMakeMove
    \/ RouteDrawTile
    \/ RouteDisconnect

NextLocal ==
    \/ StartAIGame
    \/ StoreMakeMove
    \/ StoreDrawTile
    \/ AITimer
    \/ ExecuteAITurn
    \/ StoreLeaveRoom

Next == NextRelay \/ NextRoute \/ NextLocal

Spec == Init /\ [][Next]_vars

InitRelay == Init /\ host = "relay"

InitRoute == Init /\ host = "route"

SpecRelay == InitRelay /\ [][NextRelay]_vars

SpecRoute == InitRoute /\ [][NextRoute]_vars

InitLocal == Init /\ host = "local"

SpecLocal == InitLocal /\ [][NextLocal]_vars

\* The relay with MaxParty connections that keep to the client.
InitParty ==
    /\ host = "relay"
    /\ seats = MaxParty
    /\ store = NoStore
    /\ roomOpen = TRUE
    /\ gameState = createGameState
    /\ deals = 0
    /\ stray = 0
    /\ last = Record("create-room", Null, NoMove, "ok")

SpecParty == InitParty /\ [][NextRelay]_vars

(***************************************************************************)
(* Vocabulary of the properties.                                           *)
(***************************************************************************)
Board == gameState.board

Players == gameState.players

\* The step just taken applied a placement / a pass / a draw.
Placed == last.op = "make-move" /\ last.outcome = "ok" /\ ~last.move.pass

Passed == last.op = "make-move" /\ last.outcome = "ok" /\ last.move.pass

Drew == last.op = "draw-tile" /\ last.outcome = "ok"

Matching(board) == \A i \in 1..(Len(board) - 1) : board[i].right = board[i + 1].left

DerivedEnds(board) ==
    IF Len(board) = 0 THEN <<>>
    ELSE <<[value |-> board[1].left, side |-> "left"],
           [value |-> board[Len(board)].right, side |-> "right"]>>

\* C1: after any sequence of accepted placements, adjacent placed tiles touch
\* with equal values (right value of the left tile = left value of the right).
C1_Matching == Matching(Board)

\* C2: boardEnds is empty iff the board is empty, and otherwise is exactly the
\* left value of the leftmost tile tagged left and the right value of the
\* rightmost tile tagged right.
C2_BoardEnds == gameState.boardEnds = DerivedEnds(Board)

C2_Witness == Placed /\ Len(Board) >= 3 /\ last.move.side = "left"

(***************************************************************************)
(* C3 .. C10.                                                              *)
(***************************************************************************)
\* The make-move handler of the host in charge.
Handle(g, socket, move) ==
    IF host = "relay" THEN relayMakeMove(g, socket, move)
    ELSE IF host = "route" THEN routeMakeMove(g, socket, move)
    ELSE storeMakeMove(g, move)

\* The step being taken handled a make-move / a draw-tile and applied it.
MoveApplied == last'.op = "make-move" /\ last'.outcome = "ok"

DrawApplied == last'.op = "draw-tile" /\ last'.outcome = "ok"

PlaceApplied == MoveApplied /\ ~last'.move.pass

PassApplied == MoveApplied /\ last'.move.pass

\* C3: a place, pass or draw is applied only if the participant named in the
\* move and the submitter are both the participant at currentPlayerIndex, and
\* a placement reduces no hand but the current participant's.
C3_TurnOwnership ==
    [][ /\ MoveApplied =>
            /\ IsCurrent(gameState, last'.socket)
            /\ last'.move.playerId = last'.socket
            /\ \A i \in 1..Len(Players) :
                  Len(gameState'.players[i].tiles) < Len(Players[i].tiles)
                     => i = gameState.currentPlayerIndex + 1
        /\ DrawApplied => IsCurrent(gameState, last'.socket) ]_vars

\* The tile id the move names is not in the hand of the participant it names.
NotInHand(g, move) ==
    \A i \in 1..Len(HandOf(g, move.playerId)) : HandOf(g, move.playerId)[i].id # move.tile.id

\* C4: a placement naming a tile id that is not in the hand of the participant
\* the move names is rejected: whoever submits it, in every reachable state,
\* the handler does not apply it, adds no tile to the board, reduces no hand
\* and does not advance the turn.
C4_TileNotInHand ==
    \A socket \in SocketIds : \A move \in OtherMoves(gameState) :
        (~move.pass /\ NotInHand(gameState, move)) =>
            LET r == Handle(gameState, socket, move)
            IN  /\ r.outcome # "ok"
                /\ r.state.board = gameState.board
                /\ r.state.players = gameState.players
                /\ r.state.currentPlayerIndex = gameState.currentPlayerIndex

C4_Witness ==
    /\ last.op = "make-move"
    /\ last.outcome = "Tile not found"
    /\ gameState.gameMode = "playing"
    /\ Len(Board) > 0

\* C5: on a non-empty board a placement is accepted only if one of the two pip
\* values of the submitted tile equals the value of the board end on the
\* requested side.
C5_TileDoesNotMatch ==
    [][ (PlaceApplied /\ Len(Board) > 0) =>
            \E e \in 1..Len(gameState.boardEnds) :
                /\ gameState.boardEnds[e].side = last'.move.side
                /\ \/ last'.move.tile.left = gameState.boardEnds[e].value
                   \/ last'.move.tile.right = gameState.boardEnds[e].value ]_vars

\* C6: a rejected move or draw leaves the match state as it was, field for
\* field: every relay step that answers a make-move or draw-tile with a
\* rejection has gameState' = gameState, and in every reachable state
\* executeMove returns the state it was given for every move it turns down.
C6_RejectionIdempotence ==
    /\ [][ (host = "relay" /\ last'.op \in {"make-move", "draw-tile"}
              /\ last'.outcome \in Rejections) => gameState' = gameState ]_vars
    /\ [](\A move \in OtherMoves(gameState) :
             LET r == executeMove(gameState, move)
             IN  r.outcome \in Rejections => r.state = gameState)
    /\ [](\A socket \in SocketIds : \A move \in OtherMoves(gameState) :
             /\ LET r == relayMakeMove(gameState, socket, move)
                IN  r.outcome \in Rejections => r.state = gameState
             /\ LET r == relayDrawTile(gameState, socket)
                IN  r.outcome \in Rejections => r.state = gameState)

C6_Witness ==
    /\ host = "relay"
    /\ last.op = "make-move"
    /\ last.outcome = "Tile does not match board end"
    /\ Len(Board) > 0

\* C7: once the match is concluded every later place, pass or draw is rejected
\* and leaves board, hands, boneyard, currentPlayerIndex, turnsPassed and
\* winner unchanged; a move is applied only while gameMode is 'playing'.
C7_ConcludedAcceptsNoMoves ==
    [][ /\ ((gameState.isGameOver \/ gameState.gameMode = "finished")
              /\ last'.op \in {"make-move", "draw-tile"}) =>
            /\ last'.outcome # "ok"
            /\ gameState'.board = gameState.board
            /\ gameState'.players = gameState.players
            /\ gameState'.boneyard = gameState.boneyard
            /\ gameState'.currentPlayerIndex = gameState.currentPlayerIndex
            /\ gameState'.turnsPassed = gameState.turnsPassed
            /\ gameState'.winner = gameState.winner
        /\ (MoveApplied \/ DrawApplied) => gameState.gameMode = "playing" ]_vars

\* C8: when an accepted placement leaves the hand of the participant it names
\* empty, the resulting state is concluded with that participant as winner.
C8_EmptyHandWins ==
    [][ (PlaceApplied /\ HandOf(gameState', last'.move.playerId) = <<>>) =>
            /\ gameState'.isGameOver
            /\ gameState'.gameMode = "finished"
            /\ gameState'.winner = last'.move.playerId ]_vars

\* The pip sum of a hand.
HandSum(player) == SumPips(player.tiles)

\* i is the earliest participant holding the minimal pip sum.
EarliestMinimal(players, i) ==
    /\ \A j \in 1..Len(players) : HandSum(players[i]) <= HandSum(players[j])
    /\ \A j \in 1..(i - 1) : HandSum(players[j]) > HandSum(players[i])

\* C9: when an accepted pass brings turnsPassed to the participant count, the
\* match is concluded and the winner is the participant with the minimal pip
\* sum in hand, the earliest in the participant list among those tied.
C9_PassBlockedWin ==
    [][ (PassApplied /\ gameState'.turnsPassed >= Len(gameState'.players)) =>
            /\ gameState'.isGameOver
            /\ gameState'.gameMode = "finished"
            /\ \E i \in 1..Len(gameState'.players) :
                  /\ EarliestMinimal(gameState'.players, i)
                  /\ gameState'.winner = gameState'.players[i].id ]_vars

\* A pass has just concluded the match on a tie: two participants hold the
\* minimal pip sum and the earlier of them is the winner.
C9_Witness ==
    /\ Passed
    /\ gameState.isGameOver
    /\ gameState.turnsPassed >= Len(Players)
    /\ \E i, j \in 1..Len(Players) :
          /\ i < j
          /\ EarliestMinimal(Players, i)
          /\ HandSum(Players[j]) = HandSum(Players[i])
          /\ Players[i].id # Players[j].id
          /\ Players[i].tiles # <<>>
          /\ gameState.winner = Players[i].id

Concluded(g) == g.gameMode = "finished"

\* The three concluding events, as properties of the step being taken.
EmptiedHand == PlaceApplied /\ HandOf(gameState', last'.move.playerId) = <<>>

PassesReachedCount == PassApplied /\ gameState'.turnsPassed >= Len(gameState'.players)

Humans(players) == SelectSeq(players, LAMBDA p : ~p.isAI)

LastHumanLeft ==
    /\ last'.op \in {"leave-room", "disconnect"}
    /\ last'.outcome = "ok"
    /\ gameState.gameMode = "playing"
    /\ Len(Humans(Players)) > 1
    /\ Len(Humans(gameState'.players)) = 1

\* C10: on the relay the match becomes concluded exactly on one of three
\* events: a placement empties the hand of the participant, a pass brings
\* turnsPassed to the participant count, or a departure mid-match leaves one
\* human.  Each of them concludes the match and no other step does.
C10_ConcludedExactlyWhen ==
    [][ /\ (EmptiedHand \/ PassesReachedCount \/ LastHumanLeft) =>
              (Concluded(gameState') /\ gameState'.isGameOver)
        /\ (~Concluded(gameState) /\ Concluded(gameState')) =>
              (EmptiedHand \/ PassesReachedCount \/ LastHumanLeft) ]_vars

C10_Witness ==
    /\ Concluded(gameState)
    /\ last.op \in {"leave-room", "disconnect"}
    /\ last.outcome = "ok"
    /\ Len(Players) = 1
    /\ gameState.winner = Players[1].id

(***************************************************************************)
(* C11 .. C20.                                                             *)
(***************************************************************************)
\* The participant holds a tile with a pip value equal to one of the ends.
HoldsMatch(player, boardEnds) ==
    \E i \in 1..Len(player.tiles) : \E e \in 1..Len(boardEnds) :
        \/ player.tiles[i].left = boardEnds[e].value
        \/ player.tiles[i].right = boardEnds[e].value

\* The participant has a legal placement: any tile held while the board is
\* empty, a matching tile afterwards.
HasLegalMove(player, boardEnds) ==
    IF boardEnds = <<>> THEN player.tiles # <<>> ELSE HoldsMatch(player, boardEnds)

NextIndex(g) == (g.currentPlayerIndex + 1) % Len(g.players)

\* The participant who drew in the step being taken, before and after it.
Drawer == Players[gameState.currentPlayerIndex + 1]

DrawerAfter == gameState'.players[gameState.currentPlayerIndex + 1]

\* C11: after an accepted placement or pass, or an accepted draw that leaves
\* the drawer without a legal move, currentPlayerIndex is the previous one
\* plus 1 modulo the number of participants, unless the operation concludes
\* the match, and then the index is left where it was.
C11_TurnRotation ==
    [][ /\ ((MoveApplied \/ (DrawApplied /\ ~HasLegalMove(DrawerAfter, gameState'.boardEnds)))
            /\ ~Concluded(gameState'))
           => gameState'.currentPlayerIndex = NextIndex(gameState)
        /\ ((MoveApplied \/ DrawApplied) /\ ~Concluded(gameState) /\ Concluded(gameState'))
           => gameState'.currentPlayerIndex = gameState.currentPlayerIndex ]_vars

\* C12: an accepted pass adds 1 to turnsPassed and an accepted move that is
\* not a pass (a placement, a draw) sets it to 0.
C12_PassCounter ==
    [][ /\ PassApplied => gameState'.turnsPassed = gameState.turnsPassed + 1
        /\ PlaceApplied => gameState'.turnsPassed = 0
        /\ DrawApplied => gameState'.turnsPassed = 0 ]_vars

\* C13: a draw is accepted only if it is the requester's turn, the requester
\* has no legal placement against the board ends and the boneyard is not
\* empty.
C13_DrawOnlyFallback ==
    [][ DrawApplied =>
            /\ IsCurrent(gameState, last'.socket)
            /\ ~HasLegalMove(Drawer, gameState.boardEnds)
            /\ Len(gameState.boneyard) > 0 ]_vars

\* The draw handler of the host in charge.
HandleDraw(g, socket) ==
    IF host = "relay" THEN relayDrawTile(g, socket)
    ELSE IF host = "route" THEN routeDrawTile(g, socket)
    ELSE storeDrawTile(g, "human")

\* C14: in every reachable state with an empty boneyard a draw requested by
\* anyone is not applied: no hand grows and the turn does not advance.
C14_NoTilesToDraw ==
    Len(gameState.boneyard) = 0 =>
        \A socket \in SocketIds \cup {"human"} :
            LET r == HandleDraw(gameState, socket)
            IN  /\ r.outcome # "ok"
                /\ r.state.players = gameState.players
                /\ r.state.currentPlayerIndex = gameState.currentPlayerIndex

C14_Witness ==
    /\ last.op = "draw-tile"
    /\ last.outcome = "No tiles left to draw"
    /\ gameState.gameMode = "playing"
    /\ Len(Board) > 0

\* State g2 is state g after participant number i drew one tile: one tile
\* left the boneyard and is the new last tile of that hand, and the board,
\* the ends, the other participants, winner and phase are as they were.
DrawEffect(g, g2, i) ==
    /\ \E k \in 1..Len(g.boneyard) :
          /\ g2.boneyard = SubSeq(g.boneyard, 1, k - 1) \o SubSeq(g.boneyard, k + 1, Len(g.boneyard))
          /\ g2.players[i].tiles = g.players[i].tiles \o <<g.boneyard[k]>>
    /\ Len(g2.players) = Len(g.players)
    /\ \A j \in 1..Len(g.players) : j # i => g2.players[j] = g.players[j]
    /\ g2.board = g.board
    /\ g2.boardEnds = g.boardEnds
    /\ g2.winner = g.winner
    /\ g2.isGameOver = g.isGameOver
    /\ g2.gameMode = g.gameMode

\* The state read by the call of executeAITurn that ends in this step.
AiRead ==
    store.thinking[CHOOSE i \in 1..Len(store.thinking) :
                      store'.thinking = RemoveAt(store.thinking, i)]

\* C15: an accepted draw (draw-tile of either server, drawTile of the store,
\* the draw inside executeAITurn) takes exactly one tile from the boneyard
\* and gives that tile to the drawer, and leaves the board, the ends, every
\* other hand, winner and phase unchanged.
C15_DrawEffect ==
    [][ /\ DrawApplied =>
              \E i \in 1..Len(Players) :
                  Players[i].id = last'.socket /\ DrawEffect(gameState, gameState', i)
        /\ (last'.op = "ai-turn" /\ last'.outcome = "drew") =>
              DrawEffect(AiRead, gameState', AiIdx(AiRead))
        /\ (last'.op = "ai-turn" /\ last'.outcome = "drew-moved") =>
              DrawEffect(AiRead, aiDraw(AiRead), AiIdx(AiRead)) ]_vars

C15_Witness == Drew /\ Len(Board) > 0 /\ gameState.gameMode = "playing"

\* C16: after an accepted draw the turn passes to the next participant if the
\* drawer still has no legal placement, and stays with the drawer otherwise.
C16_DrawAutoAdvance ==
    [][ DrawApplied =>
            gameState'.currentPlayerIndex =
                IF HasLegalMove(DrawerAfter, gameState'.boardEnds)
                THEN gameState.currentPlayerIndex
                ELSE NextIndex(gameState) ]_vars

\* Nobody can place and nothing is left to draw.
Blocked(g) ==
    /\ Len(g.boneyard) = 0
    /\ \A i \in 1..Len(g.players) : ~HasLegalMove(g.players[i], g.boardEnds)

\* C17: whenever an accepted placement or draw leaves the boneyard empty and
\* nobody with a legal placement, the match is concluded by that very step,
\* the lowest pip sum winning.
C17_BlockedDetection ==
    [][ ((PlaceApplied \/ DrawApplied) /\ Blocked(gameState')) =>
            /\ Concluded(gameState')
            /\ gameState'.isGameOver
            /\ gameState'.winner = determineBlockedWinner(gameState'.players) ]_vars

\* C18 as stated: isGameBlocked is true iff the boneyard is empty and no
\* participant holds a tile with a pip value equal to the value of either
\* board end.
C18_IsGameBlockedStated ==
    isGameBlocked(gameState) <=>
        /\ Len(gameState.boneyard) = 0
        /\ \A i \in 1..Len(Players) : ~HoldsMatch(Players[i], gameState.boardEnds)

\* C18 amended: isGameBlocked is true iff the boneyard is empty and, once the
\* board has ends, no participant holds a tile with a pip value equal to the
\* value of either end; while the board is empty every participant counts as
\* able to move, so it is true only for a match without participants.
C18_IsGameBlocked ==
    isGameBlocked(gameState) <=>
        /\ Len(gameState.boneyard) = 0
        /\ IF gameState.boardEnds = <<>> THEN Players = <<>>
           ELSE \A i \in 1..Len(Players) : ~HoldsMatch(Players[i], gameState.boardEnds)

C18_Witness ==
    /\ isGameBlocked(gameState)
    /\ Len(Board) > 0
    /\ Len(Players) >= 2
    /\ \A i \in 1..Len(Players) : Players[i].tiles # <<>>

\* The fields C19 compares.
SameResult(a, b) ==
    /\ a.players = b.players
    /\ a.board = b.board
    /\ a.boardEnds = b.boardEnds
    /\ a.currentPlayerIndex = b.currentPlayerIndex
    /\ a.turnsPassed = b.turnsPassed
    /\ a.winner = b.winner
    /\ a.isGameOver = b.isGameOver
    /\ a.gameMode = b.gameMode

\* C19: in every reachable state, for every move the current participant's
\* connection submits, the relay's make-move handler and the offline path
\* (store.makeMove calling executeMove) both accept or both reject, and on
\* acceptance give the same hands, board, ends, turn index, pass counter,
\* winner and phase.
C19_RelayLocalAgree ==
    \A socket \in SocketIds :
        IsCurrent(gameState, socket) =>
            \A move \in ClientMoves(gameState, socket) \cup OtherMoves(gameState) :
                LET a == relayMakeMove(gameState, socket, move)
                    b == storeMakeMove(gameState, move)
                IN  /\ (a.outcome = "ok") = (b.outcome = "ok")
                    /\ a.outcome = "ok" => SameResult(a.state, b.state)

\* The tiles of a deal, hand after hand and then the boneyard.
RECURSIVE Flatten(_)
Flatten(seqs) == IF seqs = <<>> THEN <<>> ELSE Head(seqs) \o Flatten(Tail(seqs))

DealtTiles(playerTiles, boneyard) == Flatten(playerTiles) \o boneyard

\* Every hand has tilesPerPlayer tiles, no tile is dealt twice, and hands and
\* boneyard together are the whole set.
DealComplete(playerTiles, boneyard) ==
    LET all == DealtTiles(playerTiles, boneyard)
    IN  /\ \A i \in 1..Len(playerTiles) : Len(playerTiles[i]) = tilesPerPlayer
        /\ \A i, j \in 1..Len(all) : i # j => all[i].id # all[j].id
        /\ Len(all) = SetSize

\* dealTiles on every participant count the set can serve and every shuffle.
DealsComplete ==
    \A n \in 1..MaxPlayers :
        n * tilesPerPlayer <= SetSize =>
            \A allTiles \in Shuffles \cup ShufflesOffline :
                LET d == dealTiles(n, allTiles)
                IN  Len(d.playerTiles) = n /\ DealComplete(d.playerTiles, d.boneyard)

JustDealt == last.outcome \in {"game-started", "rematch-started"}

\* C20: for every participant count and every shuffle order dealTiles gives
\* each participant exactly tilesPerPlayer tiles, pairwise disjoint hands
\* disjoint from the boneyard, and hands and boneyard sum to the set; so does
\* the state right after every deal.
C20_DealCompleteness ==
    /\ DealsComplete
    /\ JustDealt =>
          DealComplete([i \in 1..Len(Players) |-> Players[i].tiles], gameState.boneyard)

C20_Witness == JustDealt /\ Len(Players) = 2 /\ Len(gameState.boneyard) > 0

(***************************************************************************)
(* C21 .. C30.                                                             *)
(***************************************************************************)
\* The participant counts handed to dealTiles: the count of the room and
\* every count up to one past the limit of a room.
CountInputs == {Len(Players)} \cup 0..(MaxPlayers + 1)

\* The counts the set can serve.
ValidCount(n) == n >= 1 /\ n <= MaxPlayers /\ n * tilesPerPlayer <= SetSize

\* The call came back with a deal for n participants.
ReturnsHands(d, n) == DOMAIN d = {"playerTiles", "boneyard"} /\ Len(d.playerTiles) = n

\* C21: for a participant count below 1, above MaxPlayers, or asking for more
\* tiles than the set has, dealTiles fails instead of returning hands.
C21_InvalidParticipantCount ==
    \A n \in CountInputs :
        ~ValidCount(n) =>
            \A allTiles \in Shuffles \cup ShufflesOffline :
                ~ReturnsHands(dealTiles(n, allTiles), n)

Hands(g) == [i \in 1..Len(g.players) |-> g.players[i].tiles]

\* C22: in every playing match a player-ready or a join-room, whoever sends
\* it and whatever the shuffle, leaves the hands, the boneyard and the turn
\* index as they are: nothing is dealt a second time.
C22_DealOnce ==
    (roomOpen /\ gameState.gameMode = "playing") =>
        \A socket \in SocketIds, allTiles \in Shuffles :
            \A r \in {playerReady(gameState, socket, allTiles),
                      relayJoinRoom(gameState, socket)} :
                /\ r.outcome # "game-started"
                /\ Hands(r.state) = Hands(gameState)
                /\ r.state.boneyard = gameState.boneyard
                /\ r.state.currentPlayerIndex = gameState.currentPlayerIndex

\* The doubles held by the participants: <<pip value, index of the holder>>.
DoublesHeld(players) ==
    {<<players[x[1]].tiles[x[2]].left, x[1] - 1>> :
        x \in {y \in (1..Len(players)) \X (1..SetSize) :
                 /\ y[2] <= Len(players[y[1]].tiles)
                 /\ players[y[1]].tiles[y[2]].id[1] = players[y[1]].tiles[y[2]].id[2]}}

\* index is the holder of the highest double, or 0 when nobody holds one.
HoldsHighestDouble(players, index) ==
    IF DoublesHeld(players) = {} THEN index = 0
    ELSE \E d \in DoublesHeld(players) :
            /\ d[2] = index
            /\ \A e \in DoublesHeld(players) : e[1] <= d[1]

\* findStartingPlayer on every deal for every count the set can serve.
StartsComplete ==
    \A n \in 1..MaxPlayers :
        ValidCount(n) =>
            \A allTiles \in Shuffles \cup ShufflesOffline :
                LET d == dealTiles(n, allTiles)
                    players == [i \in 1..n |-> NewPlayer(SocketNames[i], TRUE)]
                    dealt == [i \in 1..n |-> [players[i] EXCEPT !.tiles = d.playerTiles[i]]]
                IN  HoldsHighestDouble(dealt, findStartingPlayer(dealt))

\* C23: findStartingPlayer returns the index of the participant who holds the
\* highest double of all hands, and 0 when no hand holds a double: on every
\* deal, on the hands of every reachable state, and as the turn index of the
\* state right after a deal.
C23_StartingPlayer ==
    /\ StartsComplete
    /\ HoldsHighestDouble(Players, findStartingPlayer(Players))
    /\ JustDealt => HoldsHighestDouble(Players, gameState.currentPlayerIndex)

C23_Witness ==
    /\ JustDealt
    /\ Len(Players) >= 2
    /\ gameState.currentPlayerIndex > 0
    /\ DoublesHeld(Players) # {}

\* The (tile, side) pairs of a hand that match the end of that side.
MatchingPairs(player, boardEnds) ==
    {[tile |-> player.tiles[x[1]], side |-> x[2]] :
        x \in {y \in (1..Len(player.tiles)) \X {"left", "right"} :
                 \E e \in 1..Len(boardEnds) :
                    /\ boardEnds[e].side = y[2]
                    /\ \/ player.tiles[y[1]].left = boardEnds[e].value
                       \/ player.tiles[y[1]].right = boardEnds[e].value}}

\* C24: for every participant of every reachable state, getValidMoves on an
\* empty board is the hand, tile by tile, each paired with side 'left'; on a
\* non-empty board its entries are exactly the pairs of a tile of the hand
\* and a side whose end carries one of the tile's pip values, none twice.
C24_GetValidMoves ==
    \A p \in 1..Len(Players) :
        LET player == Players[p]
            validMoves == getValidMoves(player, gameState.boardEnds)
        IN  IF gameState.boardEnds = <<>>
            THEN /\ Len(validMoves) = Len(player.tiles)
                 /\ \A i \in 1..Len(player.tiles) :
                       validMoves[i] = [tile |-> player.tiles[i], side |-> "left"]
            ELSE /\ {validMoves[i] : i \in 1..Len(validMoves)}
                        = MatchingPairs(player, gameState.boardEnds)
                 /\ \A i, j \in 1..Len(validMoves) : i # j => validMoves[i] # validMoves[j]

\* A tile of a hand matches both ends, and another matches none.
C24_Witness ==
    /\ gameState.gameMode = "playing"
    /\ gameState.boardEnds # <<>>
    /\ \E p \in 1..Len(Players) :
          LET validMoves == getValidMoves(Players[p], gameState.boardEnds)
          IN  /\ \E i, j \in 1..Len(validMoves) :
                    /\ validMoves[i].tile = validMoves[j].tile
                    /\ validMoves[i].side = "left"
                    /\ validMoves[j].side = "right"
              /\ \E k \in 1..Len(Players[p].tiles) :
                    \A i \in 1..Len(validMoves) : validMoves[i].tile # Players[p].tiles[k]

Departed == last.op \in {"leave-room", "disconnect"} /\ last.outcome = "ok"

\* C25: on the relay, while the match is playing, currentPlayerIndex is an
\* index into the participant list, also after participants left.
C25_ValidTurnIndex ==
    (roomOpen /\ gameState.gameMode = "playing") =>
        /\ gameState.currentPlayerIndex >= 0
        /\ gameState.currentPlayerIndex < Len(Players)

\* A participant has left a match that is still playing.
C25_Witness ==
    /\ Departed
    /\ gameState.gameMode = "playing"
    /\ Len(Players) >= 2
    /\ Len(Board) > 0

\* C26: every playing match has between 2 and MaxPlayers participants.
C26_ParticipantCount ==
    (roomOpen /\ gameState.gameMode = "playing") =>
        /\ Len(Players) >= 2
        /\ Len(Players) <= MaxPlayers

AllReady(g) ==
    /\ Len(g.players) >= 2
    /\ \A i \in 1..Len(g.players) : g.players[i].isReady

\* C27: the match leaves the waiting phase only by a step after which it has
\* at least 2 participants, every one of them marked ready.
C27_LeavesWaitingWhenReady ==
    [][ (roomOpen /\ roomOpen' /\ gameState.gameMode = "waiting"
         /\ gameState'.gameMode # "waiting") => AllReady(gameState') ]_vars

\* C28: no waiting room holds at least 2 participants who are all ready.
C28_AutoStart ==
    ~(roomOpen /\ gameState.gameMode = "waiting" /\ AllReady(gameState))

RematchStarted == last'.op = "request-rematch" /\ last'.outcome = "rematch-started"

\* C29: on the relay a rematch starts only when the match is over and every
\* participant has requested it (the last of them by this very request), and
\* it starts a fresh deal: the same participants, empty board and ends,
\* tilesPerPlayer tiles each out of a complete deal, pass counter 0, no
\* winner, isGameOver false, phase playing, no pending requests.
C29_Rematch ==
    [][ RematchStarted =>
            /\ gameState.isGameOver
            /\ \A i \in 1..Len(Players) :
                  \/ Includes(gameState.rematchRequests, Players[i].id)
                  \/ Players[i].id = last'.socket
            /\ Len(gameState'.players) = Len(Players)
            /\ \A i \in 1..Len(Players) : gameState'.players[i].id = Players[i].id
            /\ gameState'.board = <<>>
            /\ gameState'.boardEnds = <<>>
            /\ DealComplete(Hands(gameState'), gameState'.boneyard)
            /\ gameState'.turnsPassed = 0
            /\ gameState'.winner = Null
            /\ ~gameState'.isGameOver
            /\ gameState'.gameMode = "playing"
            /\ gameState'.rematchRequests = <<>> ]_vars

\* A rematch of a match that had been dealt before.
C29_Witness ==
    /\ last.op = "request-rematch"
    /\ last.outcome = "rematch-started"
    /\ deals > MaxDeals
    /\ Len(Players) = 2

\* C30: when a leave-room or disconnect takes a participant out of a playing
\* match with more than one human and exactly one human remains, the step
\* concludes the match with the remaining human as winner.
C30_LastHumanStanding ==
    [][ LastHumanLeft =>
            /\ Concluded(gameState')
            /\ gameState'.isGameOver
            /\ gameState'.winner = Humans(gameState'.players)[1].id
            /\ Humans(gameState'.players)[1].id # last'.socket ]_vars

C30_Witness ==
    /\ Departed
    /\ Concluded(gameState)
    /\ gameState.isGameOver
    /\ Len(Board) > 0
    /\ Len(Humans(Players)) = 1
    /\ Humans(Players)[1].tiles # <<>>
    /\ gameState.winner = Humans(Players)[1].id

(***************************************************************************)
(* C31 .. C40.                                                             *)
(***************************************************************************)
EndValue(g, side) == g.boardEnds[EndIdx(g.boardEnds, side)].value

\* State g2 is state g with the tile of the move placed at the end of the
\* side of the move: the tile is the new outermost tile of that side and
\* carries the values of the submitted tile, the value it turns to the chain
\* is the former value of that end, the value it turns outwards is the new
\* value of that end, the other end keeps its value, and the tiles that
\* were on the board are the rest of the board, in order and unturned.
PlacementFrame(g, g2, move) ==
    /\ move.side \in {"left", "right"}
    /\ EndIdx(g.boardEnds, move.side) # 0
    /\ Len(g2.board) = Len(g.board) + 1
    /\ LET v == EndValue(g, move.side)
           n == Len(g2.board)
           placed == IF move.side = "right" THEN g2.board[n] ELSE g2.board[1]
       IN  /\ placed.id = move.tile.id
           /\ \/ placed = move.tile
              \/ placed = flipTile(move.tile)
           /\ IF move.side = "right"
              THEN /\ SubSeq(g2.board, 1, n - 1) = g.board
                   /\ placed.left = v
                   /\ EndValue(g2, "right") = placed.right
                   /\ EndValue(g2, "left") = EndValue(g, "left")
              ELSE /\ SubSeq(g2.board, 2, n) = g.board
                   /\ placed.right = v
                   /\ EndValue(g2, "left") = placed.left
                   /\ EndValue(g2, "right") = EndValue(g, "right")

\* The call of executeAITurn that ends in this step placed a tile.
AiPlaced ==
    /\ last'.op = "ai-turn"
    /\ last'.outcome \in {"moved", "drew-moved"}
    /\ ~last'.move.pass

\* C31: every placement accepted on a non-empty board (make-move of either
\* server, makeMove of the store, the placement of executeAITurn) puts the
\* tile at the end of the chosen side with the value of that end turned to
\* the chain, makes the tile's other value the new value of that end, and
\* leaves the other end and the tiles already on the board as they were.
C31_PlacementFrame ==
    [][ /\ (PlaceApplied /\ Len(Board) > 0) =>
              PlacementFrame(gameState, gameState', last'.move)
        /\ (AiPlaced /\ Len(AiRead.board) > 0) =>
              PlacementFrame(AiRead, gameState', last'.move) ]_vars

\* The participant whose turn it is.
Current(g) == g.players[g.currentPlayerIndex + 1]

\* C32: a pass is accepted in a playing match only from a participant who
\* has no legal placement while the boneyard is empty.
C32_PassOnlyWhenStuck ==
    [][ (PassApplied /\ gameState.gameMode = "playing") =>
            /\ ~HasLegalMove(Current(gameState), gameState.boardEnds)
            /\ gameState.boneyard = <<>> ]_vars

\* Every tile of the match: the hands, the board and the boneyard.
AllTiles(g) == Flatten(Hands(g)) \o g.board \o g.boneyard

\* Each tile of the set is in exactly one place.
Conserved(g) ==
    /\ Len(AllTiles(g)) = SetSize
    /\ {AllTiles(g)[i].id : i \in 1..Len(AllTiles(g))} = TileIds

\* C33: once tiles have been dealt, every state of the match holds each tile
\* of the set exactly once among the hands, the board and the boneyard.
C33_TileConservation == (roomOpen /\ deals > 0) => Conserved(gameState)

\* C34: every tile on the board carries the two pip values its id names.
C34_PlacedTilesGenuine ==
    roomOpen => \A i \in 1..Len(Board) : Genuine(Board[i])

\* isGameOver, phase 'finished' and a winner being named go together.
TerminalAgree(g) ==
    /\ g.isGameOver <=> g.gameMode = "finished"
    /\ g.isGameOver <=> g.winner # Null

\* C35: the terminal fields agree in every state of a room, and in the state
\* a server is in after one more player-ready from any connection.
C35_TerminalFieldsAgree ==
    roomOpen =>
        /\ TerminalAgree(gameState)
        /\ host # "local" =>
              \A socket \in SocketIds, allTiles \in Shuffles :
                  TerminalAgree(playerReady(gameState, socket, allTiles).state)

\* C36: no two participants of a room have the same id.
C36_DistinctParticipantIds ==
    roomOpen => \A i, j \in 1..Len(Players) : i # j => Players[i].id # Players[j].id

\* A participant other than the current one left a playing match, and the
\* match is still playing.
OtherDeparted ==
    /\ last'.op \in {"leave-room", "disconnect"}
    /\ last'.outcome = "ok"
    /\ gameState.gameMode = "playing"
    /\ gameState'.gameMode = "playing"
    /\ Current(gameState).id # last'.socket

\* C37: when a participant who is not the current one leaves a playing match
\* that goes on, the turn stays with the participant who had it.
C37_TurnPreserved ==
    [][ OtherDeparted => Current(gameState').id = Current(gameState).id ]_vars

\* The call of executeAITurn that ends in this step stored a state.
AiWrote == last'.op = "ai-turn" /\ last'.outcome # "none"

\* C38: a call of executeAITurn stores a state only if the store still holds
\* the state the call read before its thinking delay.
C38_NoStaleAIWrite ==
    [][ AiWrote => (roomOpen /\ gameState = AiRead) ]_vars

HandCount(g) == Len(Flatten(Hands(g)))

\* What is left to play: a placement takes a tile from a hand, a draw moves
\* a tile from the boneyard to a hand, a pass adds to the pass counter, which
\* a placement may set back by less than a tile weighs.
Measure(g) ==
    (MaxPlayers + 1) * (HandCount(g) + 2 * Len(g.boneyard)) + (MaxPlayers - g.turnsPassed)

\* C39: every placement, draw or pass accepted in a playing match either
\* concludes the match or lowers a measure that is a positive number in
\* every playing state, so that no more operations than the measure of a
\* state can be accepted from it while the match stays playing.
C39_BoundedPlay ==
    [][ ((MoveApplied \/ DrawApplied) /\ gameState.gameMode = "playing") =>
            /\ Measure(gameState) >= 1
            /\ gameState'.gameMode = "playing" =>
                  /\ Measure(gameState') >= 1
                  /\ Measure(gameState') < Measure(gameState) ]_vars

\* A pass has been accepted and the match is still playing with tiles on the
\* board and passes counted.
C39_Witness ==
    /\ Passed
    /\ gameState.gameMode = "playing"
    /\ gameState.turnsPassed > 0
    /\ Len(Board) > 0

\* A call of executeAITurn is in its thinking delay.  ExecuteAITurn asks for
\* nothing else and every step of it changes store, so this is
\* ENABLED <<ExecuteAITurn>>_vars in the offline store.
AiThinking == Len(store.thinking) > 0

\* The offline store on an event loop that runs every timer callback and
\* resumes every call of executeAITurn once its thinking delay has elapsed:
\* weak fairness of AITimer and of ExecuteAITurn, the latter written out
\* with AiThinking for its ENABLED.
SpecLocalFair ==
    /\ InitLocal
    /\ [][NextLocal]_vars
    /\ WF_vars(AITimer)
    /\ ([]<>(~AiThinking) \/ []<><<ExecuteAITurn>>_vars)

\* The store holds a game that waits for the AI.
AiTurn == roomOpen /\ aiToMove(gameState)

\* A call of executeAITurn is to come: on a timer, or in its thinking delay.
AiScheduled == store.timers > 0 \/ Len(store.thinking) > 0

AiEndsInPlacement ==
    /\ AiPlaced
    /\ Len(gameState'.board) = Len(AiRead.board) + 1
    /\ HandCount(gameState') + Len(gameState'.boneyard)
          = HandCount(AiRead) + Len(AiRead.boneyard) - 1

AiEndsInDraw ==
    /\ last'.outcome = "drew"
    /\ gameState'.board = AiRead.board
    /\ Len(gameState'.boneyard) = Len(AiRead.boneyard) - 1
    /\ Len(gameState'.players[AiIdx(AiRead)].tiles)
          = Len(AiRead.players[AiIdx(AiRead)].tiles) + 1

AiEndsInPass ==
    /\ \/ last'.outcome = "passed"
       \/ last'.outcome = "moved" /\ last'.move.pass
    /\ gameState'.board = AiRead.board
    /\ gameState'.boneyard = AiRead.boneyard
    /\ gameState'.turnsPassed = AiRead.turnsPassed + 1

\* The call of executeAITurn that ends in this step ends the AI's turn.
AiTurnEnds ==
    last'.op = "ai-turn" =>
        /\ AiEndsInPlacement \/ AiEndsInDraw \/ AiEndsInPass
        /\ roomOpen'
        /\ ~aiToMove(gameState')

====
